---------------------------- MODULE Spec2Model ----------------------------
(***************************************************************************)
(* email-clients: one "send" capability over four backends (Terminal,      *)
(* Memory, SMTP, MailerSend HTTP API).                                     *)
(*                                                                         *)
(* A text value (Rust String / &str) is a sequence of text pieces: the     *)
(* empty string is <<>>, concatenation is \o, and the characters the code  *)
(* inspects ("@", "/", a line feed) are pieces of their own.               *)
(***************************************************************************)
EXTENDS Integers, Sequences, FiniteSets, TLC

(***************************************************************************)
(* Bounds of the model.                                                    *)
(***************************************************************************)
\* send calls made in one behaviour on a Terminal, SMTP or MailerSend client
MaxSends == 2
\* send calls made in one behaviour on a Memory client
MaxMemorySends == 3
\* largest capacity of a caller-supplied channel (sync_channel(n), n >= 1)
MaxCap == 2

(***************************************************************************)
(* Program constants.                                                      *)
(***************************************************************************)
\* mpsc::sync_channel(5) of MemoryClient::new / MemoryClient::default
InternalCap == 5
\* lettre::transport::smtp::SMTP_PORT, the default port of SmtpConfig
SMTP_PORT == 25
\* Duration::from_secs(10), the connect timeout of the Local transport
LocalTimeoutSecs == 10

None == [none |-> TRUE]

(***************************************************************************)
(* email.rs: EmailAddress, EmailObject.                                    *)
(***************************************************************************)
EmailAddress(name, email) == [name |-> name, email |-> email]

\* impl From<&str> for EmailAddress
FromStr(value) == [name |-> <<>>, email |-> value]

\* impl Display for EmailAddress
Display(a) ==
  IF a.name = <<>> THEN a.email
  ELSE a.name \o <<" <">> \o a.email \o <<">">>

EmailObject(sender, to, subject, plain, html) ==
  [sender |-> sender, to |-> to, subject |-> subject, plain |-> plain, html |-> html]

\* EmailObject::default()
DefaultEmail == EmailObject(EmailAddress(<<>>, <<>>), <<>>, <<>>, <<>>, <<>>)

TestAddr == <<"test", "@", "example.com">>
MailAddr == <<"mail", "@", "example.com">>
SenderAddr == <<"sender", "@", "example.com">>
\* no "@": does not parse as a mailbox
BadAddr == <<"Test Sender">>

\* the message of the repository's tests
TestEmail ==
  EmailObject(FromStr(TestAddr), <<EmailAddress(<<"Mail">>, MailAddr)>>,
              <<"New subject">>, <<"Body of email">>,
              <<"Body of email in <b>HTML</b>">>)

\* two recipients, the second of which does not parse
TwoRcptEmail ==
  EmailObject(FromStr(SenderAddr),
              <<EmailAddress(<<>>, TestAddr), EmailAddress(<<"Bad">>, BadAddr)>>,
              <<"subject">>, <<"plain body">>, <<"<a>html body</a>">>)

Emails == {TestEmail, TwoRcptEmail, DefaultEmail}

\* two recipients that both parse, the first with a display name
OrderedEmail ==
  EmailObject(FromStr(TestAddr),
              <<EmailAddress(<<"Mail">>, MailAddr), EmailAddress(<<>>, TestAddr)>>,
              <<"New subject">>, <<"Body of email">>,
              <<"Body of email in <b>HTML</b>">>)

\* the SMTP backend looks into the recipients: it is also given a message
\* with more than one valid recipient
SmtpEmails == Emails \cup {OrderedEmail}

\* the Memory backend never looks into a message: two distinct messages are
\* enough to tell which message went where
MemoryEmails == {TestEmail, TwoRcptEmail}

(***************************************************************************)
(* errors.rs: EmailError, and crate::Result.                               *)
(***************************************************************************)
AddressError(inner) == [kind |-> "AddressError", inner |-> inner]
LettreError(inner) == [kind |-> "Lettre", inner |-> inner]
SmtpError(inner) == [kind |-> "SmtpError", inner |-> inner]
UnexpectedError(msg) == [kind |-> "UnexpectedError", inner |-> msg]
MailsendHeaderError == [kind |-> "MailsendHeaderError", inner |-> <<>>]
ReqwestError(inner) == [kind |-> "ReqwestError", inner |-> inner]

\* #[error("...")] of each variant: the Display form of an EmailError
ErrorMessage(e) ==
  CASE e.kind = "AddressError" -> <<"Invalid address ">> \o e.inner
    [] e.kind = "Lettre" -> <<"Failed to send email ">> \o e.inner
    [] e.kind = "SmtpError" -> <<"Failed to send email ">> \o e.inner
    [] e.kind = "UnexpectedError" -> <<"Unexpected error: ">> \o e.inner
    [] e.kind = "MailsendHeaderError" -> <<"Invalid api token for mailsend">>
    [] e.kind = "ReqwestError" ->
         <<"Failed during making an API request: ">> \o e.inner

Ok == [st |-> "Ok"]
Err(e) == [st |-> "Err", err |-> e]
\* the call has not returned: its thread is parked inside the channel's send
Pending == [st |-> "Pending"]
\* the call unwound with a panic instead of returning
Panicked == [st |-> "Panic"]


Some(x) == [some |-> x]

(***************************************************************************)
(* Backend configurations (clients/*.rs) and configuration.rs.             *)
(***************************************************************************)
\* TerminalConfig { sender: String }
TerminalConfig(sender) == [sender |-> sender]

\* MemoryConfig::new(sender: impl Into<EmailAddress>)
MemoryConfigNew(sender) == [sender |-> sender]

\* impl Default for SmtpConfig
SmtpConfigDefault ==
  [sender |-> FromStr(<<>>), relay |-> <<"localhost">>, username |-> <<>>,
   password |-> <<>>, port |-> SMTP_PORT, tls |-> "Local"]

\* the builder methods SmtpConfig::sender .. SmtpConfig::tls, chained
SmtpConfigBuild(sender, username, password, port, tls) ==
  [SmtpConfigDefault EXCEPT !.sender = sender, !.username = username,
                            !.password = password, !.port = port, !.tls = tls]

\* static BASE_URL
BASE_URL == <<"https://api.mailersend.com", "/", "v1">>

\* str::trim_end_matches('/')
RECURSIVE TrimEndMatches(_)
TrimEndMatches(s) ==
  IF s # <<>> /\ s[Len(s)] = "/" THEN TrimEndMatches(SubSeq(s, 1, Len(s) - 1))
  ELSE s

\* impl Default for MailerSendConfig
MailerSendConfigDefault ==
  [sender |-> FromStr(<<>>), base_url |-> BASE_URL, api_token |-> <<>>]

\* MailerSendConfig::sender
MailerSendSender(config, value) == [config EXCEPT !.sender = value]

\* MailerSendConfig::base_url
MailerSendBaseUrl(config, value) ==
  [config EXCEPT !.base_url = TrimEndMatches(value)]

\* MailerSendConfig::api_token
MailerSendApiToken(config, value) == [config EXCEPT !.api_token = value]

\* #[derive(serde::Deserialize)] of MailerSendConfig: the fields as they are read
MailerSendDeserialize(sender, base_url, api_token) ==
  [sender |-> sender, base_url |-> base_url, api_token |-> api_token]

\* the sender values a configuration is built with
Senders == {FromStr(<<>>), EmailAddress(<<"Sender">>, SenderAddr)}

TerminalSenders == {<<>>, <<"me", "@", "domain.com">>}

\* the port of the repository's SMTP test
TestPort == 2525

TlsModes == {"Local", "Tls", "StartTls"}

\* the passwords an SMTP configuration is built with
Passwords == {<<>>, <<"hunter2">>}

SmtpConfigs ==
  {SmtpConfigBuild(s, u, p, port, tls) :
     s \in Senders, u \in {<<>>, <<"user">>}, p \in Passwords,
     port \in {SMTP_PORT, TestPort}, tls \in TlsModes}

MockUri == <<"http://127.0.0.1:8080">>

\* base URLs as a caller writes them, with and without trailing slashes
RawUrls == {MockUri, MockUri \o <<"/">>, MockUri \o <<"/", "/">>, BASE_URL \o <<"/">>}

\* bearer tokens; the one holding a line feed is no legal header value
ApiTokens == {<<>>, <<"API_TOKEN">>, <<"API", "\n", "TOKEN">>}

MailerSendConfigs ==
  {MailerSendApiToken(MailerSendSender(MailerSendConfigDefault, s), t) :
     s \in Senders, t \in ApiTokens}
  \cup {MailerSendApiToken(
          MailerSendBaseUrl(MailerSendSender(MailerSendConfigDefault, s), u), t) :
          s \in {EmailAddress(<<"Sender">>, SenderAddr)}, u \in RawUrls,
          t \in ApiTokens}
  \cup {MailerSendDeserialize(s, u, t) :
          s \in {EmailAddress(<<"Sender">>, SenderAddr)}, u \in RawUrls,
          t \in {<<"API_TOKEN">>}}

\* enum EmailConfiguration
EmailConfigurations ==
  {[tag |-> "Terminal", c |-> TerminalConfig(s)] : s \in TerminalSenders}
  \cup {[tag |-> "Memory", c |-> MemoryConfigNew(s)] : s \in Senders}
  \cup {[tag |-> "SMTP", c |-> c] : c \in SmtpConfigs}
  \cup {[tag |-> "Mailersend", c |-> c] : c \in MailerSendConfigs}

(***************************************************************************)
(* Clients and the factory (clients/mod.rs).                               *)
(***************************************************************************)
\* TerminalClient::new
TerminalClientNew(config) == [sender |-> config.sender]

\* MemoryClient::new written like MemoryClient::default: the sender is not taken
\* from the configuration
MemoryClientNewDefaultSender(config) ==
  [sender |-> FromStr(<<>>), tx |-> "internal"]

\* MemoryClient::new: the sender is kept, the channel is made inside and its
\* receiving end is dropped at once
MemoryClientNew(config) == [sender |-> config.sender, tx |-> "internal"]

\* impl Default for MemoryClient: the empty sender, the channel made inside
\* and its receiving end dropped at once
MemoryClientDefault == [sender |-> FromStr(<<>>), tx |-> "internal"]

\* MemoryClient::with_tx
MemoryClientWithTx(config) == [sender |-> config.sender, tx |-> "caller"]

\* SmtpClient::new
SmtpClientNew(config) == [config |-> config]

\* MailerSendClient::new
MailerSendClientNew(config) == [config |-> config, reqwest_client |-> "Client"]

\* get_email_client building the MailerSend client with MailerSendClient::default()
\* instead of MailerSendClient::new(c)
get_email_client_default_mailersend(conf) ==
  CASE conf.tag = "Terminal" -> [tag |-> "Terminal", c |-> TerminalClientNew(conf.c)]
    [] conf.tag = "SMTP" -> [tag |-> "Smtp", c |-> SmtpClientNew(conf.c)]
    [] conf.tag = "Memory" -> [tag |-> "Memory", c |-> MemoryClientNew(conf.c)]
    [] conf.tag = "Mailersend" ->
         [tag |-> "MailerSend", c |-> MailerSendClientNew(MailerSendConfigDefault)]

\* get_email_client
get_email_client(conf) ==
  CASE conf.tag = "Terminal" -> [tag |-> "Terminal", c |-> TerminalClientNew(conf.c)]
    [] conf.tag = "SMTP" -> [tag |-> "Smtp", c |-> SmtpClientNew(conf.c)]
    [] conf.tag = "Memory" -> [tag |-> "Memory", c |-> MemoryClientNew(conf.c)]
    [] conf.tag = "Mailersend" ->
         [tag |-> "MailerSend", c |-> MailerSendClientNew(conf.c)]

\* EmailClient::unwrap: the client boxed behind its EmailTrait implementation
unwrap(ec) == [vtable |-> ec.tag, obj |-> ec.c]

\* EmailTrait::get_sender, dispatched on the implementation behind the box
get_sender(h) ==
  CASE h.vtable = "Terminal" -> h.obj.sender
    [] h.vtable = "Memory" -> h.obj.sender
    [] h.vtable = "Smtp" -> h.obj.config.sender
    [] h.vtable = "MailerSend" -> h.obj.config.sender

(***************************************************************************)
(* Terminal backend (clients/terminal.rs).                                 *)
(***************************************************************************)
\* the lines TerminalClient::send_emails prints, one println! after another;
\* "Subject: {}\n\n" ends in two empty lines
TerminalLines(c, email) ==
  << <<"From: ">> \o c.sender >>
  \o [i \in 1..Len(email.to) |->
        <<"To: ">> \o email.to[i].name \o <<" <">> \o email.to[i].email \o <<">">>]
  \o << <<"Subject: ">> \o email.subject, <<>>, <<>>,
        email.plain, <<"----------">>, email.html >>

(***************************************************************************)
(* Memory backend (clients/memory.rs).                                     *)
(***************************************************************************)
\* a channel that takes one message more than its capacity
ChannelSendOverfills(q, n, alive, email) ==
  IF ~alive THEN [q |-> q, r |-> "Disconnected"]
  ELSE IF Len(q) <= n THEN [q |-> Append(q, email), r |-> "Sent"]
  ELSE [q |-> q, r |-> "Block"]

\* a channel that hands out the newest message first
ChannelSendLifo(q, n, alive, email) ==
  IF ~alive THEN [q |-> q, r |-> "Disconnected"]
  ELSE IF Len(q) < n THEN [q |-> <<email>> \o q, r |-> "Sent"]
  ELSE [q |-> q, r |-> "Block"]

\* a channel that keeps one slot free
ChannelSendOffByOne(q, n, alive, email) ==
  IF ~alive THEN [q |-> q, r |-> "Disconnected"]
  ELSE IF Len(q) + 1 < n THEN [q |-> Append(q, email), r |-> "Sent"]
  ELSE [q |-> q, r |-> "Block"]

\* a channel that queues the message before it finds the receiver gone
ChannelSendQueuesFirst(q, n, alive, email) ==
  IF Len(q) < n
    THEN [q |-> Append(q, email), r |-> IF alive THEN "Sent" ELSE "Disconnected"]
  ELSE IF ~alive THEN [q |-> q, r |-> "Disconnected"]
  ELSE [q |-> q, r |-> "Block"]

\* std::sync::mpsc::SyncSender::send on a channel holding q, of capacity n:
\* an error when the receiver is gone, the value queued when there is room,
\* and otherwise the calling thread parks until there is room
ChannelSend(q, n, alive, email) ==
  IF ~alive THEN [q |-> q, r |-> "Disconnected"]
  ELSE IF Len(q) < n THEN [q |-> Append(q, email), r |-> "Sent"]
  ELSE [q |-> q, r |-> "Block"]

\* .map_err(|_| EmailError::UnexpectedError("Cannot send email in memory"))
MemoryMapErr == UnexpectedError(<<"Cannot send email in memory">>)

\* send_emails written with `let _ = self.tx.send(email);`: the error is dropped
MemoryResultIgnoresError(r) ==
  CASE r = "Sent" -> Ok
    [] r = "Disconnected" -> Ok
    [] r = "Block" -> Pending

\* the Result MemoryClient::send_emails returns for an outcome of the channel
MemoryResult(r) ==
  CASE r = "Sent" -> Ok
    [] r = "Disconnected" -> Err(MemoryMapErr)
    [] r = "Block" -> Pending

(***************************************************************************)
(* SMTP backend (clients/smtp.rs).                                         *)
(***************************************************************************)
\* str::parse::<lettre::Address>: user "@" domain, or an AddressError
ParseAddress(email) ==
  IF Len(email) = 3 /\ email[2] = "@" /\ email[1] # "@" /\ email[3] # "@"
  THEN [ok |-> TRUE, v |-> [user |-> email[1], domain |-> email[3]]]
  ELSE [ok |-> FALSE, err |-> AddressError(<<"Missing domain or user">>)]

\* impl TryInto<Mailbox> for EmailAddress
TryIntoMailbox(a) ==
  LET p == ParseAddress(a.email)
  IN  IF p.ok THEN [ok |-> TRUE, v |-> [name |-> Some(a.name), email |-> p.v]]
      ELSE [ok |-> FALSE, err |-> p.err]

\* the timeout a transport builder starts with, which only Local overrides
BuilderTimeout == [default |-> TRUE]

\* get_transport attaching the credentials in every mode
GetTransportCredentialsAlways(c, tlsParamsOk) ==
  LET settings == c.config
      creds == [username |-> settings.username, password |-> settings.password]
      tls == CASE settings.tls = "Local" -> "None"
               [] settings.tls = "Tls" -> "Wrapper"
               [] settings.tls = "StartTls" -> "Required"
  IN  IF settings.tls # "Local" /\ ~tlsParamsOk THEN [st |-> "Panic"]
      ELSE [st |-> "Built",
            transport |-> [relay |-> settings.relay, port |-> settings.port,
                           tls |-> tls, credentials |-> Some(creds),
                           timeout |-> IF settings.tls = "Local"
                                         THEN Some(LocalTimeoutSecs)
                                         ELSE [default |-> TRUE]]]

\* get_transport without .port(settings.port) in the StartTls arm: the
\* transport keeps the submission port starttls_relay() starts with
GetTransportStartTlsDefaultPort(c, tlsParamsOk) ==
  LET settings == c.config
      creds == [username |-> settings.username, password |-> settings.password]
  IN  CASE settings.tls = "Local" ->
             [st |-> "Built",
              transport |-> [relay |-> settings.relay, port |-> settings.port,
                             tls |-> "None", credentials |-> None,
                             timeout |-> Some(LocalTimeoutSecs)]]
        [] settings.tls = "Tls" ->
             IF tlsParamsOk
             THEN [st |-> "Built",
                   transport |-> [relay |-> settings.relay, port |-> settings.port,
                                  tls |-> "Wrapper", credentials |-> Some(creds),
                                  timeout |-> BuilderTimeout]]
             ELSE [st |-> "Panic"]
        [] settings.tls = "StartTls" ->
             IF tlsParamsOk
             THEN [st |-> "Built",
                   transport |-> [relay |-> settings.relay, port |-> 587,
                                  tls |-> "Required", credentials |-> Some(creds),
                                  timeout |-> BuilderTimeout]]
             ELSE [st |-> "Panic"]

\* SmtpClient::get_transport. tlsParamsOk is the answer of lettre's relay() /
\* starttls_relay(), which the code unwraps.
GetTransport(c, tlsParamsOk) ==
  LET settings == c.config
      creds == [username |-> settings.username, password |-> settings.password]
  IN  CASE settings.tls = "Local" ->
             [st |-> "Built",
              transport |-> [relay |-> settings.relay, port |-> settings.port,
                             tls |-> "None", credentials |-> None,
                             timeout |-> Some(LocalTimeoutSecs)]]
        [] settings.tls = "Tls" ->
             IF tlsParamsOk
             THEN [st |-> "Built",
                   transport |-> [relay |-> settings.relay, port |-> settings.port,
                                  tls |-> "Wrapper", credentials |-> Some(creds),
                                  timeout |-> BuilderTimeout]]
             ELSE [st |-> "Panic"]
        [] settings.tls = "StartTls" ->
             IF tlsParamsOk
             THEN [st |-> "Built",
                   transport |-> [relay |-> settings.relay, port |-> settings.port,
                                  tls |-> "Required", credentials |-> Some(creds),
                                  timeout |-> BuilderTimeout]]
             ELSE [st |-> "Panic"]

\* the first recipient that does not convert to a Mailbox, 0 when all do
FirstBadRecipient(to) ==
  LET bad == {i \in 1..Len(to) : ~TryIntoMailbox(to[i]).ok}
  IN  IF bad = {} THEN 0 ELSE CHOOSE i \in bad : \A j \in bad : i <= j

\* send_emails taking From and Reply-To from the message's sender field
SmtpOutcomeFromOfMessage(c, email, tlsParamsOk, delivered) ==
  LET t == GetTransport(c, tlsParamsOk)
      from == TryIntoMailbox(email.sender)
      bad == FirstBadRecipient(email.to)
      message ==
        [from |-> from.v, reply_to |-> from.v,
         to |-> [i \in 1..Len(email.to) |-> TryIntoMailbox(email.to[i]).v],
         subject |-> email.subject,
         body |-> [multipart |-> "alternative", plain |-> email.plain,
                   html |-> email.html]]
  IN  IF t.st = "Panic" THEN [res |-> Panicked, built |-> <<>>, sent |-> <<>>]
      ELSE IF ~from.ok
        THEN [res |-> Err(from.err), built |-> <<t.transport>>, sent |-> <<>>]
      ELSE IF bad # 0
        THEN [res |-> Err(TryIntoMailbox(email.to[bad]).err),
              built |-> <<t.transport>>, sent |-> <<>>]
      ELSE IF Len(email.to) = 0
        THEN [res |-> Err(LettreError(<<"missing destination address">>)),
              built |-> <<t.transport>>, sent |-> <<>>]
      ELSE [res |-> IF delivered THEN Ok ELSE Err(SmtpError(<<"Connection error">>)),
            built |-> <<t.transport>>, sent |-> <<message>>]

\* SmtpClient::send_emails: the result, the transport handles built and the
\* messages handed to the transport. delivered is the relay's answer.
SmtpOutcome(c, email, tlsParamsOk, delivered) ==
  LET t == GetTransport(c, tlsParamsOk)
      from == TryIntoMailbox(c.config.sender)
      bad == FirstBadRecipient(email.to)
      message ==
        [from |-> from.v, reply_to |-> from.v,
         to |-> [i \in 1..Len(email.to) |-> TryIntoMailbox(email.to[i]).v],
         subject |-> email.subject,
         body |-> [multipart |-> "alternative", plain |-> email.plain,
                   html |-> email.html]]
  IN  IF t.st = "Panic" THEN [res |-> Panicked, built |-> <<>>, sent |-> <<>>]
      ELSE IF ~from.ok
        THEN [res |-> Err(from.err), built |-> <<t.transport>>, sent |-> <<>>]
      ELSE IF bad # 0
        THEN [res |-> Err(TryIntoMailbox(email.to[bad]).err),
              built |-> <<t.transport>>, sent |-> <<>>]
      ELSE IF Len(email.to) = 0
        THEN [res |-> Err(LettreError(<<"missing destination address">>)),
              built |-> <<t.transport>>, sent |-> <<>>]
      ELSE [res |-> IF delivered THEN Ok ELSE Err(SmtpError(<<"Connection error">>)),
            built |-> <<t.transport>>, sent |-> <<message>>]

(***************************************************************************)
(* MailerSend backend (clients/mailersend.rs).                             *)
(***************************************************************************)
\* impl From<EmailObject> for EmailPayload
EmailPayload(value) ==
  [from |-> value.sender, to |-> value.to, subject |-> value.subject,
   text |-> value.plain, html |-> value.html]

\* url() relying on the builder to have removed the trailing slashes
UrlUntrimmed(c) == c.config.base_url \o <<"/email">>

\* MailerSendClient::url
Url(c) == TrimEndMatches(c.config.base_url) \o <<"/email">>

\* a header value built without the check of its bytes
HeaderValueParsesUnchecked(v) == \A i \in 1..Len(v) : v[i] = v[i]

\* HeaderValue::from_str: no control character in a header value
HeaderValueParses(v) == \A i \in 1..Len(v) : v[i] # "\n"

\* headers() putting the bare token into the Authorization header
HeadersBareToken(c) ==
  LET v == c.config.api_token
  IN  IF HeaderValueParses(v) THEN [ok |-> TRUE, v |-> [Authorization |-> v]]
      ELSE [ok |-> FALSE, err |-> MailsendHeaderError]

\* headers() reporting the header value it could not parse
HeadersErrorShowsValue(c) ==
  LET v == <<"Bearer ">> \o c.config.api_token
  IN  IF HeaderValueParses(v) THEN [ok |-> TRUE, v |-> [Authorization |-> v]]
      ELSE [ok |-> FALSE, err |-> UnexpectedError(<<"Invalid header value: ">> \o v)]

\* MailerSendClient::headers
Headers(c) ==
  LET v == <<"Bearer ">> \o c.config.api_token
  IN  IF HeaderValueParses(v) THEN [ok |-> TRUE, v |-> [Authorization |-> v]]
      ELSE [ok |-> FALSE, err |-> MailsendHeaderError]

\* what the endpoint answers: an HTTP status, or nothing (the request fails)
Statuses == {200, 204, 304, 401, 500}
Responses ==
  {[kind |-> "Status", code |-> n] : n \in Statuses}
  \cup {[kind |-> "NetworkError", code |-> 0]}

\* reqwest::Response::error_for_status: an error for a client error (4xx) or a
\* server error (5xx), the response itself for any other status
ErrorForStatus(code, url) ==
  IF code >= 400 /\ code <= 499
    THEN [ok |-> FALSE,
          err |-> ReqwestError(<<"HTTP status client error (", ToString(code),
                                 ") for url (">> \o url \o <<")">>)]
  ELSE IF code >= 500 /\ code <= 599
    THEN [ok |-> FALSE,
          err |-> ReqwestError(<<"HTTP status server error (", ToString(code),
                                 ") for url (">> \o url \o <<")">>)]
  ELSE [ok |-> TRUE]

\* send_emails putting the client's configured sender into the payload's from
MailerSendOutcomeFromOfClient(c, email, response) ==
  LET payload == [EmailPayload(email) EXCEPT !.from = c.config.sender]
      url == Url(c)
      headers == Headers(c)
      request == [method |-> "POST", url |-> url, headers |-> headers.v,
                  json |-> payload]
      checked == ErrorForStatus(response.code, url)
  IN  IF ~headers.ok THEN [res |-> Err(headers.err), issued |-> <<>>]
      ELSE IF response.kind = "NetworkError"
        THEN [res |-> Err(ReqwestError(<<"error sending request for url (">>
                                        \o url \o <<")">>)),
              issued |-> <<request>>]
      ELSE IF ~checked.ok THEN [res |-> Err(checked.err), issued |-> <<request>>]
      ELSE [res |-> Ok, issued |-> <<request>>]

\* send_emails issuing the request a second time when it could not be sent
MailerSendOutcomeRetries(c, email, response) ==
  LET payload == EmailPayload(email)
      url == Url(c)
      headers == Headers(c)
      request == [method |-> "POST", url |-> url, headers |-> headers.v,
                  json |-> payload]
      checked == ErrorForStatus(response.code, url)
  IN  IF ~headers.ok THEN [res |-> Err(headers.err), issued |-> <<>>]
      ELSE IF response.kind = "NetworkError"
        THEN [res |-> Err(ReqwestError(<<"error sending request for url (">>
                                        \o url \o <<")">>)),
              issued |-> <<request, request>>]
      ELSE IF ~checked.ok THEN [res |-> Err(checked.err), issued |-> <<request>>]
      ELSE [res |-> Ok, issued |-> <<request>>]

\* MailerSendClient::send_emails: the result and the requests issued
MailerSendOutcome(c, email, response) ==
  LET payload == EmailPayload(email)
      url == Url(c)
      headers == Headers(c)
      request == [method |-> "POST", url |-> url, headers |-> headers.v,
                  json |-> payload]
      checked == ErrorForStatus(response.code, url)
  IN  IF ~headers.ok THEN [res |-> Err(headers.err), issued |-> <<>>]
      ELSE IF response.kind = "NetworkError"
        THEN [res |-> Err(ReqwestError(<<"error sending request for url (">>
                                        \o url \o <<")">>)),
              issued |-> <<request>>]
      ELSE IF ~checked.ok THEN [res |-> Err(checked.err), issued |-> <<request>>]
      ELSE [res |-> Ok, issued |-> <<request>>]

(***************************************************************************)
(* State.                                                                  *)
(***************************************************************************)
\* the threads (tasks) that call send on the client or on a clone of it
Callers == {"c1", "c2"}
\* a send on a Terminal, SMTP or MailerSend client shares no state with another
\* send, so one caller stands for all of them
MainCaller == "c1"

VARIABLES
  configuration,  \* the EmailConfiguration the caller constructed
  client,         \* the EmailClient built from it, None before and after unwrap
  handle,         \* the Box<dyn EmailTrait + Send> unwrap returned, or None
  cap,            \* capacity of the Memory client's channel
  chan,           \* the messages the channel holds, oldest first
  rxAlive,        \* the channel's Receiver has not been dropped
  received,       \* the messages the receiving end took off the channel
  pc,             \* per caller: "idle", or "blocked" inside the channel's send
  at,             \* per caller: the log entry of the send call it is blocked in
  log,            \* the send calls in call order: who called, the message,
                  \* the result, what the endpoint answered (env), and how
                  \* many calls had been made when this one returned (ret)
  order,          \* the log entries whose message went onto the channel, in
                  \* the order they went
  got,            \* what the last get_sender call returned
  stdout,         \* the lines written to standard output
  transports,     \* the SMTP transport handles built
  submitted,      \* the messages handed to an SMTP transport
  requests,       \* the HTTP requests issued
  logs            \* the lines logged

vars ==
  <<configuration, client, handle, cap, chan, rxAlive, received, pc, at, log,
    order, got, stdout, transports, submitted, requests, logs>>

channelVars == <<cap, chan, rxAlive, received>>
outputVars == <<stdout, transports, submitted, requests, logs>>

Init ==
  /\ configuration \in EmailConfigurations
  /\ client = None
  /\ handle = None
  /\ cap = 0
  /\ chan = <<>>
  /\ rxAlive = FALSE
  /\ received = <<>>
  /\ pc = [c \in Callers |-> "idle"]
  /\ at = [c \in Callers |-> 0]
  /\ log = <<>>
  /\ order = <<>>
  /\ got = None
  /\ stdout = <<>>
  /\ transports = <<>>
  /\ submitted = <<>>
  /\ requests = <<>>
  /\ logs = <<>>

(***************************************************************************)
(* Construction.                                                           *)
(***************************************************************************)
\* get_email_client whose Memory client keeps the receiving end of its channel
GetEmailClientKeepsReceiver ==
  /\ client = None
  /\ handle = None
  /\ client' = get_email_client(configuration)
  /\ IF configuration.tag = "Memory"
       THEN cap' = InternalCap /\ rxAlive' = TRUE
       ELSE UNCHANGED <<cap, rxAlive>>
  /\ logs' = IF configuration.tag = "SMTP"
               THEN Append(logs, <<"Starting smtp client">>)
               ELSE logs
  /\ UNCHANGED <<configuration, handle, chan, received, pc, at, log, order, got,
                 stdout, transports, submitted, requests>>

\* get_email_client(configuration). MemoryClient::new makes sync_channel(5)
\* and drops its receiver; SmtpClient::new logs its construction.
GetEmailClient ==
  /\ client = None
  /\ handle = None
  /\ client' = get_email_client(configuration)
  /\ IF configuration.tag = "Memory"
       THEN cap' = InternalCap /\ rxAlive' = FALSE
       ELSE UNCHANGED <<cap, rxAlive>>
  /\ logs' = IF configuration.tag = "SMTP"
               THEN Append(logs, <<"Starting smtp client">>)
               ELSE logs
  /\ UNCHANGED <<configuration, handle, chan, received, pc, at, log, order, got,
                 stdout, transports, submitted, requests>>

\* EmailClient::Memory(MemoryClient::default()), by a caller whose
\* configuration holds the empty sender that default() gives the client
MemoryDefault ==
  /\ configuration = [tag |-> "Memory", c |-> MemoryConfigNew(FromStr(<<>>))]
  /\ client = None
  /\ handle = None
  /\ client' = [tag |-> "Memory", c |-> MemoryClientDefault]
  /\ cap' = InternalCap
  /\ rxAlive' = FALSE
  /\ UNCHANGED <<configuration, handle, chan, received, pc, at, log, order, got,
                 outputVars>>

\* let (tx, rx) = mpsc::sync_channel(n);
\* EmailClient::Memory(MemoryClient::with_tx(config, tx)): the caller keeps rx
WithTx(n) ==
  /\ configuration.tag = "Memory"
  /\ client = None
  /\ handle = None
  /\ client' = [tag |-> "Memory", c |-> MemoryClientWithTx(configuration.c)]
  /\ cap' = n
  /\ rxAlive' = TRUE
  /\ UNCHANGED <<configuration, handle, chan, received, pc, at, log, order, got,
                 outputVars>>

\* EmailClient::unwrap(self)
Unwrap ==
  /\ client # None
  /\ handle' = unwrap(client)
  /\ client' = None
  /\ UNCHANGED <<configuration, channelVars, pc, at, log, order, got,
                 outputVars>>

(***************************************************************************)
(* The EmailTrait operations.                                              *)
(***************************************************************************)
GetSenderCall ==
  /\ handle # None
  /\ got' = Some(get_sender(handle))
  /\ UNCHANGED <<configuration, client, handle, channelVars, pc, at, log,
                 order, outputVars>>

CanCall(c, backend) ==
  /\ handle # None
  /\ handle.vtable = backend
  /\ pc[c] = "idle"
  /\ Len(log) < IF backend = "Memory" THEN MaxMemorySends ELSE MaxSends

Logged(c, email, res, env) ==
  Append(log, [who |-> c, email |-> email, res |-> res, env |-> env,
               ret |-> IF res = Pending THEN 0 ELSE Len(log) + 1])

TerminalSendEmails(c, email) ==
  /\ CanCall(c, "Terminal")
  /\ stdout' = stdout \o TerminalLines(handle.obj, email)
  /\ log' = Logged(c, email, Ok, None)
  /\ UNCHANGED <<configuration, client, handle, channelVars, pc, at, order, got,
                 transports, submitted, requests, logs>>

\* MemoryClient::send_emails, up to its return or to the point where the
\* channel parks the calling thread
MemorySendEmails(c, email) ==
  /\ CanCall(c, "Memory")
  /\ LET s == ChannelSend(chan, cap, rxAlive, email)
     IN  /\ chan' = s.q
         /\ log' = Logged(c, email, MemoryResult(s.r), None)
         /\ order' = IF s.r = "Sent" THEN Append(order, Len(log) + 1) ELSE order
         /\ pc' = [pc EXCEPT ![c] = IF s.r = "Block" THEN "blocked" ELSE "idle"]
         /\ at' = [at EXCEPT ![c] = IF s.r = "Block" THEN Len(log) + 1 ELSE 0]
  /\ UNCHANGED <<configuration, client, handle, cap, rxAlive, received, got,
                 outputVars>>

\* a parked send wakes: there is room now, or the receiver is gone
MemorySendResume(c) ==
  /\ pc[c] = "blocked"
  /\ LET s == ChannelSend(chan, cap, rxAlive, log[at[c]].email)
     IN  /\ s.r # "Block"
         /\ chan' = s.q
         /\ log' = [log EXCEPT ![at[c]].res = MemoryResult(s.r),
                               ![at[c]].ret = Len(log)]
         /\ order' = IF s.r = "Sent" THEN Append(order, at[c]) ELSE order
  /\ pc' = [pc EXCEPT ![c] = "idle"]
  /\ at' = [at EXCEPT ![c] = 0]
  /\ UNCHANGED <<configuration, client, handle, cap, rxAlive, received, got,
                 outputVars>>

\* what a send asked of its surroundings and was answered: whether lettre could
\* build the TLS parameters (asked by relay() / starttls_relay() only) and
\* whether the relay took the message (asked only when a message was submitted)
SmtpEnv(c, o, tlsParamsOk, delivered) ==
  [kind |-> "Smtp",
   tlsParams |-> IF c.config.tls = "Local" THEN "NotAsked"
                 ELSE IF tlsParamsOk THEN "Ok" ELSE "Err",
   relay |-> IF o.sent = <<>> THEN "NotAsked"
             ELSE IF delivered THEN "Ok" ELSE "Err"]

SmtpSendEmails(c, email, tlsParamsOk, delivered) ==
  /\ CanCall(c, "Smtp")
  /\ LET o == SmtpOutcome(handle.obj, email, tlsParamsOk, delivered)
     IN  /\ transports' = transports \o o.built
         /\ submitted' = submitted \o o.sent
         /\ log' = Logged(c, email, o.res,
                          SmtpEnv(handle.obj, o, tlsParamsOk, delivered))
  /\ UNCHANGED <<configuration, client, handle, channelVars, pc, at, order, got,
                 stdout, requests, logs>>

MailerSendSendEmails(c, email, response) ==
  /\ CanCall(c, "MailerSend")
  /\ LET o == MailerSendOutcome(handle.obj, email, response)
     IN  /\ requests' = requests \o o.issued
         /\ log' = Logged(c, email, o.res,
                          IF o.issued = <<>> THEN None ELSE response)
  /\ UNCHANGED <<configuration, client, handle, channelVars, pc, at, order, got,
                 stdout, transports, submitted, logs>>

(***************************************************************************)
(* The receiving end of a caller-supplied channel.                         *)
(***************************************************************************)
\* rx.recv() / rx.try_recv() taking the oldest message
Recv ==
  /\ rxAlive
  /\ chan # <<>>
  /\ received' = Append(received, Head(chan))
  /\ chan' = Tail(chan)
  /\ UNCHANGED <<configuration, client, handle, cap, rxAlive, pc, at, log,
                 order, got, outputVars>>

\* drop(rx): the channel disconnects and what it still holds is dropped
DropReceiver ==
  /\ rxAlive
  /\ rxAlive' = FALSE
  /\ chan' = <<>>
  /\ UNCHANGED <<configuration, client, handle, cap, received, pc, at, log,
                 order, got, outputVars>>

Next ==
  \/ GetEmailClient
  \/ MemoryDefault
  \/ \E n \in 1..MaxCap : WithTx(n)
  \/ Unwrap
  \/ GetSenderCall
  \/ \E email \in Emails : TerminalSendEmails(MainCaller, email)
  \/ \E c \in Callers, email \in MemoryEmails : MemorySendEmails(c, email)
  \/ \E c \in Callers : MemorySendResume(c)
  \/ \E email \in SmtpEmails, tlsParamsOk \in BOOLEAN, delivered \in BOOLEAN :
        SmtpSendEmails(MainCaller, email, tlsParamsOk, delivered)
  \/ \E email \in Emails, response \in Responses :
        MailerSendSendEmails(MainCaller, email, response)
  \/ Recv
  \/ DropReceiver

Spec == Init /\ [][Next]_vars

\* Each caller's thread keeps running: a parked send that can return does.
\* Nothing obliges the receiving end to take a message or to go away.
FairSpec == Spec /\ \A c \in Callers : WF_vars(MemorySendResume(c))

(***************************************************************************)
(* Properties.                                                             *)
(***************************************************************************)
\* the sender a configuration was given, whatever its variant
ConfiguredSender == configuration.c.sender

\* to_string() of what get_sender returns: a String for the Terminal client,
\* an EmailAddress for the others
SenderText(v) == IF configuration.tag = "Terminal" THEN v ELSE Display(v)

\* the default configuration of each variant
IsDefaultConfiguration ==
  CASE configuration.tag = "Terminal" -> configuration.c = TerminalConfig(<<>>)
    [] configuration.tag = "Memory" ->
         configuration.c = MemoryConfigNew(EmailAddress(<<>>, <<>>))
    [] configuration.tag = "SMTP" -> configuration.c = SmtpConfigDefault
    [] configuration.tag = "Mailersend" -> configuration.c = MailerSendConfigDefault

\* C1: on the client built from a configuration and unwrapped, get_sender
\* returns exactly the configuration's sender, and the empty address for the
\* default configuration, after any number of get_sender and send calls.
C1_GetSenderRoundTrip ==
  got # None =>
    /\ got.some = ConfiguredSender
    /\ IsDefaultConfiguration => SenderText(got.some) = <<>>

\* C1 witness: on an unwrapped SMTP client that has made a send call,
\* get_sender has answered with the configured, non-empty sender.
C1_Witness ==
  /\ got # None
  /\ Len(log) >= 1
  /\ client = None /\ handle # None
  /\ configuration.tag = "SMTP"
  /\ got.some = EmailAddress(<<"Sender">>, SenderAddr)

\* what the receiving end has taken, followed by what waits on the channel
Observed == received \o chan

\* C2: with a caller-supplied channel whose receiver is alive, the messages
\* at the receiving end are exactly those of the send calls that returned
\* success, each once and with the field values passed to send, and a send
\* that returned before another was called is observed before it.
C2_MemoryDeliversInOrder ==
  (handle # None /\ handle.vtable = "Memory" /\ rxAlive) =>
    /\ Len(order) = Len(Observed)
    /\ \A k \in 1..Len(order) : Observed[k] = log[order[k]].email
    /\ \A a, b \in 1..Len(order) : a # b => order[a] # order[b]
    /\ {order[k] : k \in 1..Len(order)} = {i \in 1..Len(log) : log[i].res = Ok}
    /\ \A a, b \in 1..Len(order) : log[order[a]].ret < order[b] => a < b

\* C2 witness: three sends succeeded, two distinct messages among them, and the
\* receiver has taken some and not yet others.
C2_Witness ==
  /\ handle # None /\ handle.vtable = "Memory" /\ rxAlive
  /\ Len(log) = 3
  /\ \A i \in 1..3 : log[i].res = Ok
  /\ log[1].email # log[2].email
  /\ received # <<>> /\ chan # <<>>

\* a step in which a send call is made on the Memory client
MemorySendCalled ==
  /\ handle # None /\ handle.vtable = "Memory"
  /\ Len(log') = Len(log) + 1

\* C3: a send on a full channel whose receiver is alive fails at once with
\* UnexpectedError and leaves the channel as it was.
C3_FullChannelFailsImmediately ==
  [][(MemorySendCalled /\ rxAlive /\ Len(chan) = cap) =>
       /\ log'[Len(log')].res.st = "Err"
       /\ log'[Len(log')].res.err.kind = "UnexpectedError"
       /\ chan' = chan]_vars

\* a step in which a send on the Memory client returns
MemorySendReturned(i) ==
  /\ handle # None /\ handle.vtable = "Memory"
  /\ i \in 1..Len(log')
  /\ log'[i].res # Pending
  /\ i > Len(log) \/ log[i].res = Pending

\* C4: a send that finds the channel without a live receiver returns
\* UnexpectedError("Cannot send email in memory") and enqueues nothing.
C4_NoReceiverFails ==
  [][\A i \in 1..Len(log') :
       (MemorySendReturned(i) /\ ~rxAlive) =>
         /\ log'[i].res = Err(UnexpectedError(<<"Cannot send email in memory">>))
         /\ ErrorMessage(log'[i].res.err)
              = <<"Unexpected error: ", "Cannot send email in memory">>
         /\ chan' = chan
         /\ order' = order]_vars

\* C4 witness: a client on a caller-supplied channel whose receiver was
\* dropped after one delivery has failed a send with that error.
C4_Witness ==
  /\ handle # None /\ handle.vtable = "Memory" /\ handle.obj.tx = "caller"
  /\ ~rxAlive
  /\ Len(log) = 2
  /\ log[1].res = Ok
  /\ log[2].res = Err(MemoryMapErr)
  /\ chan = <<>>

\* C5: every send call on a Memory client returns, whatever the receiving
\* end does: a caller inside send gets out of it.
C5_SendEventuallyReturns ==
  \A c \in Callers : (pc[c] = "blocked") ~> (pc[c] = "idle")

\* C6: on a channel of capacity at least 2 with a live receiver that has taken
\* nothing, two sends of one message both succeed and the channel holds two
\* messages, each equal to the one sent.
C6_SendTwice ==
  (/\ handle # None /\ handle.vtable = "Memory"
   /\ rxAlive /\ cap >= 2 /\ received = <<>>
   /\ Len(log) = 2 /\ log[1].email = log[2].email) =>
    /\ log[1].res = Ok
    /\ log[2].res = Ok
    /\ chan = <<log[1].email, log[1].email>>

\* C6 witness: one caller sent the test message twice on such a channel and
\* the channel holds the two copies.
C6_Witness ==
  /\ handle # None /\ handle.vtable = "Memory"
  /\ rxAlive /\ cap >= 2 /\ received = <<>>
  /\ Len(log) = 2 /\ log[1].email = TestEmail /\ log[2].email = TestEmail
  /\ log[1].who = log[2].who
  /\ chan = <<TestEmail, TestEmail>>

\* the results a send of email can have on client h with the channel in the
\* given state, over everything the relay or the endpoint may answer
SendOutcomes(h, q, n, alive, email) ==
  CASE h.vtable = "Terminal" -> {Ok}
    [] h.vtable = "Memory" -> {MemoryResult(ChannelSend(q, n, alive, email).r)}
    [] h.vtable = "Smtp" ->
         {SmtpOutcome(h.obj, email, t, d).res : t \in BOOLEAN, d \in BOOLEAN}
    [] h.vtable = "MailerSend" ->
         {MailerSendOutcome(h.obj, email, r).res : r \in Responses}

\* a step in which a send call returns an error (or unwinds)
SendFailed ==
  \E i \in 1..Len(log') :
    /\ log'[i].res.st \in {"Err", "Panic"}
    /\ i > Len(log) \/ log[i].res = Pending

\* C7: a send call leaves the client, its configuration and its sender as
\* they were; a failed send also leaves the channel as it was, so that any send
\* made after it has the outcomes it would have had without it.
C7_SendLeavesClientUsable ==
  [][/\ log' # log =>
          /\ handle' = handle
          /\ configuration' = configuration
          /\ get_sender(handle') = get_sender(handle)
     /\ SendFailed =>
          /\ <<cap', chan', rxAlive'>> = <<cap, chan, rxAlive>>
          /\ \A email \in Emails :
               SendOutcomes(handle', chan', cap', rxAlive', email)
                 = SendOutcomes(handle, chan, cap, rxAlive, email)]_vars

\* C7 witness: on an SMTP client a send failed and the same message, sent
\* again with nothing done in between, was delivered.
C7_Witness ==
  /\ handle # None /\ handle.vtable = "Smtp"
  /\ Len(log) = 2
  /\ log[1].res.st = "Err"
  /\ log[2].res = Ok
  /\ log[1].email = log[2].email

\* the log entries of the sends the endpoint answered with an HTTP status
Answered == {i \in 1..Len(log) : log[i].env # None /\ log[i].env.kind = "Status"}

\* C8: every request of a MailerSend send is a POST to the base URL (its
\* trailing slashes removed) followed by /email with the header
\* Authorization: Bearer <token>; a send whose token is a legal header value
\* issues one; and the send returns success whenever the answer is a 2xx.
C8_PostWithBearer ==
  (handle # None /\ handle.vtable = "MailerSend") =>
    /\ \A k \in 1..Len(requests) :
         /\ requests[k].method = "POST"
         /\ requests[k].url
              = TrimEndMatches(configuration.c.base_url) \o <<"/email">>
         /\ requests[k].headers
              = [Authorization |-> <<"Bearer ">> \o configuration.c.api_token]
    /\ configuration.c.api_token \in {<<>>, <<"API_TOKEN">>}
         => Len(requests) = Len(log)
    /\ \A i \in Answered :
         (log[i].env.code >= 200 /\ log[i].env.code <= 299) => log[i].res = Ok

\* C8 witness: the mock endpoint of the tests answered 200 to a POST with
\* the bearer token API_TOKEN, then 204, and both sends returned success.
C8_Witness ==
  /\ handle # None /\ handle.vtable = "MailerSend"
  /\ Len(log) = 2 /\ Len(requests) = 2
  /\ requests[1].url = MockUri \o <<"/email">>
  /\ requests[1].headers.Authorization = <<"Bearer ", "API_TOKEN">>
  /\ log[1].env = [kind |-> "Status", code |-> 200] /\ log[1].res = Ok
  /\ log[2].env = [kind |-> "Status", code |-> 204] /\ log[2].res = Ok

\* C9: a MailerSend send whose endpoint answers with a status outside
\* 200..299 returns ReqwestError with the status in its message.
C9_Non2xxFails ==
  (handle # None /\ handle.vtable = "MailerSend") =>
    \A i \in Answered :
      (log[i].env.code < 200 \/ log[i].env.code > 299) =>
        /\ log[i].res.st = "Err"
        /\ log[i].res.err.kind = "ReqwestError"
        /\ \E j \in 1..Len(ErrorMessage(log[i].res.err)) :
             ErrorMessage(log[i].res.err)[j] = ToString(log[i].env.code)

\* C10: with TlsMode::Local no send unwinds while the transport is built,
\* every send builds its transport, and no transport carries credentials,
\* whatever the username and the password.
C10_LocalTransport ==
  (handle # None /\ handle.vtable = "Smtp" /\ handle.obj.config.tls = "Local") =>
    /\ \A i \in 1..Len(log) : log[i].res # Panicked
    /\ Len(transports) = Len(log)
    /\ \A k \in 1..Len(transports) : transports[k].credentials = None

\* C10 witness: a Local client holding a username and a password has built a
\* transport for each of two sends, the second of which was delivered.
C10_Witness ==
  /\ handle # None /\ handle.vtable = "Smtp" /\ handle.obj.config.tls = "Local"
  /\ handle.obj.config.username = <<"user">>
  /\ handle.obj.config.password = <<"hunter2">>
  /\ Len(transports) = 2
  /\ log[2].res = Ok

\* the log entries of the send calls made on the SMTP client
SmtpCalls ==
  IF handle # None /\ handle.vtable = "Smtp" THEN 1..Len(log) ELSE {}

\* C11: every SMTP send that does not succeed returns Err with an AddressError,
\* a Lettre (message build) error or an SmtpError, in each TLS mode: no send
\* unwinds with a panic while it builds the transport, parses the addresses,
\* builds the message or submits it.
C11_SmtpFailuresAreTyped ==
  \A i \in SmtpCalls :
    \/ log[i].res = Ok
    \/ /\ log[i].res.st = "Err"
       /\ log[i].res.err.kind \in {"AddressError", "Lettre", "SmtpError"}

\* a step in which a send call is made on the Terminal client
TerminalSendCalled ==
  /\ handle # None /\ handle.vtable = "Terminal"
  /\ Len(log') = Len(log) + 1

\* C12: a Terminal send appends to standard output, in this order, the From:
\* line with the configured sender, one To: line with name and address per
\* recipient in list order, the Subject: line, one blank line, the plain body,
\* the separator line and the HTML body, and nothing else; it returns success.
C12_TerminalOutput ==
  [][TerminalSendCalled =>
       LET email == log'[Len(log')].email
       IN  /\ stdout' =
                stdout
                \o << <<"From: ">> \o configuration.c.sender >>
                \o [i \in 1..Len(email.to) |->
                      <<"To: ">> \o email.to[i].name \o <<" <">>
                        \o email.to[i].email \o <<">">>]
                \o << <<"Subject: ">> \o email.subject, <<>>, email.plain,
                      <<"----------">>, email.html >>
           /\ log'[Len(log')].res = Ok]_vars

\* the secret credential of a client: the password of an SMTP configuration,
\* the bearer token of a MailerSend configuration
Secret(h) ==
  IF h.vtable = "Smtp" THEN h.obj.config.password ELSE h.obj.config.api_token

\* the secrets a configuration of h's backend may hold
Secrets(h) == IF h.vtable = "Smtp" THEN Passwords ELSE ApiTokens

\* the client built like h from a configuration that differs in the secret only
WithSecret(h, s) ==
  IF h.vtable = "Smtp" THEN [h EXCEPT !.obj.config.password = s]
  ELSE [h EXCEPT !.obj.config.api_token = s]

\* the results client h returns for the message of call i when its
\* surroundings answer what they answered in call i
ReplayResults(h, i) ==
  IF h.vtable = "Smtp"
    THEN {SmtpOutcome(h.obj, log[i].email, t, d).res :
            t \in IF log[i].env.tlsParams = "NotAsked" THEN BOOLEAN
                  ELSE {log[i].env.tlsParams = "Ok"},
            d \in IF log[i].env.relay = "NotAsked" THEN BOOLEAN
                  ELSE {log[i].env.relay = "Ok"}}
  ELSE {MailerSendOutcome(h.obj, log[i].email, r).res :
          r \in IF log[i].env = None THEN Responses ELSE {log[i].env}}

\* the pieces of text of the errors the send calls returned and of the lines
\* logged
ErrorAndLogText ==
  UNION {{ErrorMessage(log[i].res.err)[j] :
            j \in 1..Len(ErrorMessage(log[i].res.err))}
         \cup {log[i].res.err.inner[j] : j \in 1..Len(log[i].res.err.inner)} :
           i \in {k \in 1..Len(log) : log[k].res.st = "Err"}}
  \cup UNION {{logs[i][j] : j \in 1..Len(logs[i])} : i \in 1..Len(logs)}

\* the clients that hold a secret credential
HoldsSecret == handle # None /\ handle.vtable \in {"Smtp", "MailerSend"}

\* C13: no error returned by send and no log line holds the password or the
\* bearer token, and a client that differs only in that secret returns the
\* same result for every call made, given the same answers, and logs the same.
C13_SecretNotObservable ==
  HoldsSecret =>
    /\ \A j \in 1..Len(Secret(handle)) : Secret(handle)[j] \notin ErrorAndLogText
    /\ logs = IF handle.vtable = "Smtp" THEN << <<"Starting smtp client">> >>
              ELSE <<>>
    /\ \A s \in Secrets(handle), i \in 1..Len(log) :
         ReplayResults(WithSecret(handle, s), i) = {log[i].res}

\* s is a secret that the header check treats like the secret of h: a bearer
\* token that is a legal header value exactly if the token of h is one
SameLegality(h, s) ==
  h.vtable = "MailerSend" =>
    HeaderValueParses(<<"Bearer ">> \o s)
      = HeaderValueParses(<<"Bearer ">> \o Secret(h))

\* C13 (amended): no error returned by send and no log line holds the password
\* or the bearer token, and a client that differs only in that secret (for
\* bearer tokens: both legal header values, or both not) returns the same
\* result for every call made, given the same answers, and logs the same.
C13_SecretNotObservableAmended ==
  HoldsSecret =>
    /\ \A j \in 1..Len(Secret(handle)) : Secret(handle)[j] \notin ErrorAndLogText
    /\ logs = IF handle.vtable = "Smtp" THEN << <<"Starting smtp client">> >>
              ELSE <<>>
    /\ \A s \in {x \in Secrets(handle) : SameLegality(handle, x)},
          i \in 1..Len(log) :
         ReplayResults(WithSecret(handle, s), i) = {log[i].res}

\* C13 witness: a MailerSend client holding the token API_TOKEN was answered
\* 401 by the endpoint and then failed to reach it: two errors returned.
C13_Witness ==
  /\ handle # None /\ handle.vtable = "MailerSend"
  /\ Secret(handle) = <<"API_TOKEN">>
  /\ Len(log) = 2
  /\ log[1].env = [kind |-> "Status", code |-> 401] /\ log[1].res.st = "Err"
  /\ log[2].env.kind = "NetworkError" /\ log[2].res.st = "Err"

\* a step in which get_email_client returns its client
FactoryReturned ==
  /\ client = None /\ client' # None
  /\ ~(client'.tag = "Memory" /\ client'.c.tx = "caller")

\* a step in which a send call is made, on whatever client
SendCalled == Len(log') = Len(log) + 1

\* C14: get_email_client returns the client of the configuration's backend,
\* holding the configuration's fields unchanged, and writes nothing, builds no
\* transport, issues no request and touches no channel content; unwrap yields
\* the handle of that same client, whose get_sender and send do what the
\* concrete client built directly from the configuration does.
C14_FactoryAndUnwrap ==
  [][/\ FactoryReturned =>
          /\ client'.tag =
               CASE configuration.tag = "Terminal" -> "Terminal"
                 [] configuration.tag = "SMTP" -> "Smtp"
                 [] configuration.tag = "Memory" -> "Memory"
                 [] configuration.tag = "Mailersend" -> "MailerSend"
          /\ CASE client'.tag = "Terminal" ->
                    client'.c.sender = configuration.c.sender
               [] client'.tag = "Smtp" -> client'.c.config = configuration.c
               [] client'.tag = "Memory" ->
                    client'.c.sender = configuration.c.sender
               [] client'.tag = "MailerSend" ->
                    client'.c.config = configuration.c
          /\ UNCHANGED <<stdout, transports, submitted, requests, chan, received>>
     /\ (handle = None /\ handle' # None) =>
          /\ client # None
          /\ handle'.vtable = client.tag
          /\ handle'.obj = client.c
     /\ got' # got => got'.some = configuration.c.sender
     /\ SendCalled =>
          LET e == log'[Len(log')]
          IN  CASE configuration.tag = "Terminal" ->
                     /\ e.res = Ok
                     /\ stdout' = stdout
                          \o TerminalLines(TerminalClientNew(configuration.c), e.email)
                [] configuration.tag = "Memory" ->
                     e.res = MemoryResult(ChannelSend(chan, cap, rxAlive, e.email).r)
                [] configuration.tag = "SMTP" ->
                     \E t \in BOOLEAN, d \in BOOLEAN :
                       LET o == SmtpOutcome(SmtpClientNew(configuration.c),
                                            e.email, t, d)
                       IN  /\ e.res = o.res
                           /\ transports' = transports \o o.built
                           /\ submitted' = submitted \o o.sent
                [] configuration.tag = "Mailersend" ->
                     \E r \in Responses :
                       LET o == MailerSendOutcome(
                                  MailerSendClientNew(configuration.c), e.email, r)
                       IN  /\ e.res = o.res
                           /\ requests' = requests \o o.issued]_vars

\* C14 witness: the client built by get_email_client from a Mailersend
\* configuration with a mock base URL was unwrapped, asked for its sender and
\* made a send that the endpoint answered with 200.
C14_Witness ==
  /\ configuration.tag = "Mailersend"
  /\ TrimEndMatches(configuration.c.base_url) = MockUri
  /\ client = None /\ handle # None /\ handle.vtable = "MailerSend"
  /\ got # None
  /\ Len(log) = 1 /\ log[1].res = Ok
  /\ Len(requests) = 1

\* C15: one send call submits at most one message to the SMTP transport,
\* issues at most one HTTP request and hands at most one message to the
\* channel, each only as part of a send call; a call whose one attempt fails
\* returns the error itself, and the result a call returned never changes.
C15_NoRetry ==
  [][/\ Len(submitted') \in {Len(submitted), Len(submitted) + 1}
     /\ Len(requests') \in {Len(requests), Len(requests) + 1}
     /\ Len(order') \in {Len(order), Len(order) + 1}
     /\ \A a, b \in 1..Len(order') : a # b => order'[a] # order'[b]
     /\ (submitted' # submitted \/ requests' # requests) => SendCalled
     /\ \A i \in 1..Len(log) : log[i].res # Pending => log'[i] = log[i]
     /\ SendCalled =>
          LET e == log'[Len(log')]
          IN  /\ (e.env # None /\ e.env.kind = "Smtp" /\ e.env.relay = "Err") =>
                   /\ e.res.st = "Err" /\ e.res.err.kind = "SmtpError"
                   /\ Len(submitted') = Len(submitted) + 1
              /\ (e.env # None /\ e.env.kind = "NetworkError") =>
                   /\ e.res.st = "Err" /\ e.res.err.kind = "ReqwestError"
                   /\ Len(requests') = Len(requests) + 1
              /\ (e.env # None /\ e.env.kind = "Status" /\ e.env.code >= 400) =>
                   /\ e.res.st = "Err" /\ e.res.err.kind = "ReqwestError"
                   /\ Len(requests') = Len(requests) + 1
              /\ (handle.vtable = "Memory" /\ ~rxAlive) =>
                   /\ e.res.st = "Err"
                   /\ order' = order /\ chan' = chan]_vars

\* C15 witness: the relay refused both of two SMTP sends; each call submitted
\* its message once and returned the error.
C15_Witness ==
  /\ handle # None /\ handle.vtable = "Smtp"
  /\ Len(log) = 2
  /\ log[1].env.relay = "Err" /\ log[1].res.st = "Err"
  /\ log[2].env.relay = "Err" /\ log[2].res.st = "Err"
  /\ Len(submitted) = 2

\* the mailbox "name <user@domain>" of an address whose email field is
\* user "@" domain
MailboxOf(a) ==
  [name |-> Some(a.name), email |-> [user |-> a.email[1], domain |-> a.email[3]]]

\* C16: the message an SMTP send submits has From and Reply-To set to the
\* configured sender, whatever the message's own sender field, one To entry
\* per recipient in list order, the message's subject, and a multipart
\* alternative body of the plain and the HTML body; all its addresses parse.
C16_SubmittedMessage ==
  [][(SendCalled /\ submitted' # submitted) =>
       LET email == log'[Len(log')].email
           m == submitted'[Len(submitted')]
       IN  /\ submitted' = Append(submitted, m)
           /\ ParseAddress(configuration.c.sender.email).ok
           /\ m.from = MailboxOf(configuration.c.sender)
           /\ m.reply_to = MailboxOf(configuration.c.sender)
           /\ Len(m.to) = Len(email.to)
           /\ \A i \in 1..Len(email.to) :
                /\ ParseAddress(email.to[i].email).ok
                /\ m.to[i] = MailboxOf(email.to[i])
           /\ m.subject = email.subject
           /\ m.body = [multipart |-> "alternative", plain |-> email.plain,
                        html |-> email.html]]_vars

\* C16 witness: a client configured with the sender "Sender"
\* <sender@example.com> submitted a message to two recipients whose own
\* sender field is test@example.com.
C16_Witness ==
  /\ handle # None /\ handle.vtable = "Smtp"
  /\ Len(log) = 1 /\ log[1].email = OrderedEmail
  /\ Len(submitted) = 1
  /\ Len(submitted[1].to) = 2
  /\ submitted[1].to[1].email.user = "mail"
  /\ submitted[1].to[2].email.user = "test"
  /\ submitted[1].from.email.user = "sender"

\* C17: every transport an SMTP send builds has the configured port; it
\* carries the configured username and password when the mode is Tls or
\* StartTls, and no credentials when the mode is Local.
C17_TransportCredentialsAndPort ==
  (handle # None /\ handle.vtable = "Smtp") =>
    \A k \in 1..Len(transports) :
      /\ transports[k].port = configuration.c.port
      /\ configuration.c.tls \in {"Tls", "StartTls"} =>
           transports[k].credentials
             = Some([username |-> configuration.c.username,
                     password |-> configuration.c.password])
      /\ configuration.c.tls = "Local" => transports[k].credentials = None

\* C17 witness: a StartTls client configured with user, hunter2 and port 2525
\* has built two transports, the second of which carries these.
C17_Witness ==
  /\ handle # None /\ handle.vtable = "Smtp"
  /\ configuration.c.tls = "StartTls"
  /\ configuration.c.port = TestPort
  /\ Len(transports) = 2
  /\ transports[2].port = TestPort
  /\ transports[2].credentials
       = Some([username |-> <<"user">>, password |-> <<"hunter2">>])

\* C18: after n send calls on an SMTP client, n transport handles have been
\* built, one by each call, each from the stored configuration.
C18_TransportPerSend ==
  \A i \in SmtpCalls :
    /\ Len(transports) = Len(log)
    /\ transports[i].relay = configuration.c.relay
    /\ transports[i].port = configuration.c.port

\* a step in which a MailerSend send issues its request
RequestIssued == SendCalled /\ requests' # requests

\* C19: the JSON payload of a MailerSend request has from = the message's
\* sender, to = its recipients in order, subject, text = the plain body and
\* html = the HTML body, and the From address the request carries is the
\* client's configured sender.
C19_PayloadAndConfiguredFrom ==
  [][RequestIssued =>
       LET email == log'[Len(log')].email
           json == requests'[Len(requests')].json
       IN  /\ json = [from |-> email.sender, to |-> email.to,
                      subject |-> email.subject, text |-> email.plain,
                      html |-> email.html]
           /\ json.from = configuration.c.sender]_vars

\* C19 (amended): the JSON payload of a MailerSend request has exactly from =
\* the message's sender as {name, email}, to = its recipients in order,
\* subject, text = the plain body and html = the HTML body; the request is the
\* POST of that payload with the Authorization header, and the client's
\* configured sender is no part of it.
C19_PayloadFromMessageAlone ==
  [][RequestIssued =>
       LET email == log'[Len(log')].email
           request == requests'[Len(requests')]
       IN  /\ requests' = Append(requests, request)
           /\ request.json = [from |-> [name |-> email.sender.name,
                                        email |-> email.sender.email],
                              to |-> email.to,
                              subject |-> email.subject, text |-> email.plain,
                              html |-> email.html]
           /\ request = [method |-> "POST",
                         url |-> TrimEndMatches(configuration.c.base_url)
                                   \o <<"/email">>,
                         headers |-> [Authorization |->
                                        <<"Bearer ">> \o configuration.c.api_token],
                         json |-> request.json]]_vars

\* C19 witness: a client configured with the sender "Sender"
\* <sender@example.com> posted a message whose sender field is the bare
\* sender@example.com and which has two recipients.
C19_Witness ==
  /\ handle # None /\ handle.vtable = "MailerSend"
  /\ configuration.c.sender = EmailAddress(<<"Sender">>, SenderAddr)
  /\ Len(log) = 1 /\ log[1].email = TwoRcptEmail
  /\ Len(requests) = 1
  /\ requests[1].json.from = FromStr(SenderAddr)
  /\ Len(requests[1].json.to) = 2

\* b is raw with every trailing slash removed: b ends in no slash and raw is
\* b followed by slashes only
IsTrimmed(b, raw) ==
  /\ b = <<>> \/ b[Len(b)] # "/"
  /\ Len(b) <= Len(raw)
  /\ raw = b \o [i \in 1..(Len(raw) - Len(b)) |-> "/"]

\* C20: every request of a MailerSend send goes to the configured base URL
\* with every trailing slash removed, followed by /email, for a base URL left
\* at its default, set with the base_url builder or deserialized; the builder
\* stores its argument with every trailing slash removed, and applied to what
\* it stored it stores the same again.
C20_UrlNormalized ==
  (handle # None /\ handle.vtable = "MailerSend") =>
    /\ \A k \in 1..Len(requests) :
         LET url == requests[k].url
         IN  /\ Len(url) >= 1
             /\ url[Len(url)] = "/email"
             /\ IsTrimmed(SubSeq(url, 1, Len(url) - 1), configuration.c.base_url)
    /\ \A raw \in RawUrls \cup {BASE_URL} :
         LET set == MailerSendBaseUrl(configuration.c, raw)
         IN  /\ IsTrimmed(set.base_url, raw)
             /\ MailerSendBaseUrl(set, set.base_url) = set
             /\ set = [configuration.c EXCEPT !.base_url = set.base_url]

\* C20 witness: a deserialized configuration whose base URL ends in two
\* slashes posted to the mock endpoint's /email.
C20_Witness ==
  /\ handle # None /\ handle.vtable = "MailerSend"
  /\ configuration.c.base_url = MockUri \o <<"/", "/">>
  /\ Len(requests) = 1
  /\ requests[1].url = MockUri \o <<"/email">>

\* the client is a MailerSend client whose bearer token holds a line feed,
\* which no HTTP header value may hold
TokenIsNoHeaderValue ==
  /\ handle # None /\ handle.vtable = "MailerSend"
  /\ \E j \in 1..Len(configuration.c.api_token) :
       configuration.c.api_token[j] = "\n"

\* C21: when the bearer token cannot be a header value, every MailerSend send
\* returns MailsendHeaderError, no HTTP request is issued, and the error's
\* message holds no piece of the token.
C21_InvalidTokenFails ==
  TokenIsNoHeaderValue =>
    /\ requests = <<>>
    /\ \A i \in 1..Len(log) :
         /\ log[i].res.st = "Err"
         /\ log[i].res.err.kind = "MailsendHeaderError"
         /\ log[i].env = None
         /\ ErrorMessage(log[i].res.err) = <<"Invalid api token for mailsend">>
         /\ \A j \in 1..Len(configuration.c.api_token) :
              \A k \in 1..Len(ErrorMessage(log[i].res.err)) :
                ErrorMessage(log[i].res.err)[k] # configuration.c.api_token[j]

\* C21 witness: a client whose token holds a line feed has failed two sends
\* with MailsendHeaderError and no request has gone out.
C21_Witness ==
  /\ TokenIsNoHeaderValue
  /\ Len(log) = 2
  /\ log[1].res = Err(MailsendHeaderError)
  /\ log[2].res = Err(MailsendHeaderError)
  /\ requests = <<>>

\* the Memory client is shared by the callers and its receiver is alive
SharedMemoryClient == handle # None /\ handle.vtable = "Memory" /\ rxAlive

\* how many of the messages waiting on the channel caller c sent (while the
\* receiver lives the waiting messages are the last Len(chan) hand-offs)
OwnWaiting(c) ==
  Cardinality({k \in (Len(order) - Len(chan) + 1)..Len(order) :
                 log[order[k]].who = c})

\* the channel holds no more than its capacity; what was handed to it is
\* observed once each, and per caller in the order of that caller's calls
SharedChannelSound ==
  /\ Len(chan) <= cap
  /\ Len(order) = Len(Observed)
  /\ \A k \in 1..Len(order) : Observed[k] = log[order[k]].email
  /\ \A a, b \in 1..Len(order) : a # b => order[a] # order[b]
  /\ {order[k] : k \in 1..Len(order)} = {i \in 1..Len(log) : log[i].res = Ok}
  /\ \A a, b \in 1..Len(order) :
       (log[order[a]].who = log[order[b]].who /\ order[a] < order[b]) => a < b

InternalChannelClient ==
  \/ client # None /\ client.tag = "Memory" /\ client.c.tx = "internal"
  \/ handle # None /\ handle.vtable = "Memory" /\ handle.obj.tx = "internal"

\* C23: a Memory client from MemoryClient::new, MemoryClient::default or
\* get_email_client has a channel without a receiver from its construction
\* on: every send on it, by whichever caller, fails with UnexpectedError and
\* nothing is ever stored or received; a Memory send that succeeded was made
\* on a client built with with_tx.
C23_InternalChannelNeverDelivers ==
  /\ InternalChannelClient =>
       /\ ~rxAlive
       /\ cap = InternalCap
       /\ chan = <<>> /\ received = <<>> /\ order = <<>>
       /\ \A c \in Callers : pc[c] = "idle"
       /\ \A i \in 1..Len(log) :
            /\ log[i].res.st = "Err"
            /\ log[i].res.err
                 = UnexpectedError(<<"Cannot send email in memory">>)
  /\ (handle # None /\ handle.vtable = "Memory") =>
       ((\E i \in 1..Len(log) : log[i].res = Ok) => handle.obj.tx = "caller")

\* C23 witness: three sends by two callers on a client with an internal
\* channel have all failed and nothing is stored.
C23_Witness ==
  /\ handle # None /\ handle.vtable = "Memory" /\ handle.obj.tx = "internal"
  /\ Len(log) = 3
  /\ log[1].who # log[3].who
  /\ \A i \in 1..3 : log[i].res = Err(MemoryMapErr)
  /\ chan = <<>>

\* a step in which a send call is made on the SMTP client
SmtpSendCalled == handle # None /\ handle.vtable = "Smtp" /\ SendCalled

\* C24: an SMTP send submits its message only after the configured sender
\* and every recipient have parsed; when the sender or a recipient does not
\* parse, the send returns AddressError and submits nothing, so that a client
\* with the default empty sender fails every send with AddressError.
C24_AddressParsingPrecedesSubmission ==
  [][SmtpSendCalled =>
       LET e == log'[Len(log')]
           senderBad == ~ParseAddress(configuration.c.sender.email).ok
           rcptBad == \E i \in 1..Len(e.email.to) :
                        ~ParseAddress(e.email.to[i].email).ok
       IN  /\ (senderBad \/ rcptBad) =>
                /\ e.res.st = "Err"
                /\ e.res.err.kind = "AddressError"
                /\ submitted' = submitted
           /\ submitted' # submitted => (~senderBad /\ ~rcptBad)
           /\ configuration.c.sender = FromStr(<<>>) =>
                (e.res.st = "Err" /\ e.res.err.kind = "AddressError")]_vars

=============================================================================
